---- MODULE Spec2Model ----
(***************************************************************************)
(* A model of fmg_api_client.py: the command-line run of one FortiManager  *)
(* request (main, FortiManagerAPIClient.execute_request and the scoped     *)
(* session around the remote call) and the table renderer                  *)
(* (TableFormatter.format_table, TableFormatter._flatten_value).           *)
(*                                                                         *)
(* Spec       one run of the client, from the command line (main) or from  *)
(*            a direct use of FortiManagerAPIClient;                       *)
(* SpecTable  the table branch of main applied to one response;            *)
(* SpecCell   _flatten_value applied to one cell value.                    *)
(***************************************************************************)
EXTENDS Integers, Sequences, FiniteSets, TLC

VARIABLES
    entry,          \* "none", "cli" (main) or "api" (the class used directly)
    pc,             \* the position of the run
    method,         \* the verb as given
    endpoint,       \* the path, a sequence of characters
    query_params,   \* args.query: None or a list of positional parameters
    request_data,   \* the parsed body (a JSON value) or None
    config,         \* the mapping load_config_file returned
    creds,          \* which of host, password, apikey are set
    netlog,         \* every use of the pyFMG connection, in order
    pending,        \* the exception in flight, "none" if none
    retval,         \* the value of the return statement inside the with block
    result,         \* what execute_request returned
    stderr,         \* the error message of main, by kind
    exitCode,       \* the process exit status, read once pc = "exited"
    caught,         \* the exception an except clause of execute_request bound to e
    interrupted,    \* whether SIGINT reached the process during the run
    response_data,  \* the value handed to the table renderer
    max_fields,     \* args.table_max_fields
    max_width,      \* args.table_max_width
    rendered,       \* what format_table returned or raised
    stdout,         \* what the table branch of main printed
    cell_value,     \* the cell value handed to _flatten_value
    flat            \* what _flatten_value returned or raised

reqvars == <<entry, pc, method, endpoint, query_params, request_data, config,
             creds, netlog, pending, retval, result, stderr, exitCode, caught,
             interrupted>>
tabvars == <<response_data, max_fields, max_width, rendered, stdout, cell_value, flat>>
vars == <<entry, pc, method, endpoint, query_params, request_data, config,
          creds, netlog, pending, retval, result, stderr, exitCode, caught,
          interrupted, response_data, max_fields, max_width, rendered, stdout,
          cell_value, flat>>

None == [t |-> "none"]

Min(a, b) == IF a < b THEN a ELSE b
Max(a, b) == IF a > b THEN a ELSE b

(***************************************************************************)
(* The request: inputs.                                                    *)
(***************************************************************************)
SupportedMethods == {"get", "add", "set", "update", "delete", "exec"}

\* The verbs a caller can hand over: the six, one in capitals, one unknown.
Methods == SupportedMethods \cup {"GET", "foo"}

\* str.lower on the verbs of Methods.
Lower(m) == IF m = "GET" THEN "get" ELSE m

Endpoints == { <<"/", "p", "m">>, <<"p", "m">> }

\* args.query: absent, or the -q values in the order given.
Queries == { None, [t |-> "list", items |-> <<"q1", "q2">>], [t |-> "list", items |-> <<"q2", "q1">>] }

\* JSON bodies after json.loads: an object, the empty object, a list, the empty list.
JsonObject == [t |-> "map", n |-> 1]
JsonEmptyObject == [t |-> "map", n |-> 0]
JsonList == [t |-> "list", n |-> 1]
JsonEmptyList == [t |-> "list", n |-> 0]
Bodies == {None, JsonObject, JsonEmptyObject, JsonList, JsonEmptyList}

\* The -d argument as text.
DataArgs == {"absent", "", "{\"name\": \"x\"}", "{}", "[1]", "[]", "{name"}

\* Python truthiness of a body.
Truthy(d) == d.t # "none" /\ d.n > 0

\* What a use of the connection can raise: the classes the except clauses name,
\* some other Exception, and the interrupt of the user.
Exceptions == {"FMGConnectionError", "FMGConnectTimeout", "FMGValidSessionException",
               "FMGBaseException", "Exception", "KeyboardInterrupt"}

IntStatus(n) == [t |-> "int", n |-> n]
StrStatus(s) == [t |-> "str", s |-> s]

\* What the remote can answer: its own status with its own body.
RemoteStatuses == { IntStatus(0), IntStatus(399), IntStatus(400), IntStatus(404),
                    IntStatus(0 - 3), StrStatus("success"), StrStatus("OK"),
                    StrStatus("error") }
RemoteBody == [remote |-> "body"]
Responses == { [status |-> s, payload |-> RemoteBody] : s \in RemoteStatuses }

(***************************************************************************)
(* The request: pure parts.                                                *)
(***************************************************************************)
\* json.loads on the texts of DataArgs; ok is FALSE for a JSONDecodeError.
parse_data_argument(text) ==
    CASE text = "{\"name\": \"x\"}" -> [ok |-> TRUE, value |-> JsonObject]
      [] text = "{}" -> [ok |-> TRUE, value |-> JsonEmptyObject]
      [] text = "[1]" -> [ok |-> TRUE, value |-> JsonList]
      [] text = "[]" -> [ok |-> TRUE, value |-> JsonEmptyList]
      [] OTHER -> [ok |-> FALSE, value |-> None]

\* The files -c can name: none there, neither JSON nor INI, or a file whose
\* fortimanager section (or whole content) has the keys of `keys`.
ConfigKeySets == { {}, {"host", "password"}, {"ip", "apikey"}, {"password"} }
ConfigFiles == { [fmt |-> "missing", keys |-> {}], [fmt |-> "garbage", keys |-> {}] }
               \cup { [fmt |-> f, keys |-> k] : f \in {"json", "ini"}, k \in ConfigKeySets }

load_config_file(file) ==
    CASE file.fmt = "missing" -> [exc |-> "FileNotFoundError", config |-> {}]
      [] file.fmt = "garbage" -> [exc |-> "ValueError", config |-> {}]
      [] OTHER -> [exc |-> "none", config |-> file.keys]

\* if not endpoint.startswith('/'): endpoint = '/' + endpoint
NormalizeEndpoint(e) == IF Len(e) > 0 /\ e[1] = "/" THEN e ELSE <<"/">> \o e

ErrorResult(code, label, e) ==
    [status |-> IntStatus(code), payload |-> [error |-> label, details |-> e]]

\* Whether exception e is an instance of a class an except clause names.
IsConnection(e) == e \in {"FMGConnectionError", "FMGConnectTimeout"}
IsValidSession(e) == e = "FMGValidSessionException"
IsFMGBase(e) == e \in {"FMGBaseException", "FMGValidSessionException"}
IsException(e) == e \in Exceptions \cup {"TypeError", "ValueError"} /\ e # "KeyboardInterrupt"

\* Classify with the FMGBaseException clause tried before the session clause.
Classify_BaseFirst(e) ==
    IF IsConnection(e) THEN ErrorResult(0 - 1, "Connection failed", e)
    ELSE IF IsFMGBase(e) THEN ErrorResult(0 - 3, "API error", e)
    ELSE IF IsValidSession(e) THEN ErrorResult(0 - 2, "Invalid session", e)
    ELSE ErrorResult(0 - 4, "Unexpected error", e)

\* The except clauses of execute_request, tried in order.
Classify(e) ==
    IF IsConnection(e) THEN ErrorResult(0 - 1, "Connection failed", e)
    ELSE IF IsValidSession(e) THEN ErrorResult(0 - 2, "Invalid session", e)
    ELSE IF IsFMGBase(e) THEN ErrorResult(0 - 3, "API error", e)
    ELSE ErrorResult(0 - 4, "Unexpected error", e)

\* VerbTable with delete passing **kwargs as add does.
VerbTable_DeleteBody(m) ==
    CASE m = "get" -> [op |-> "get", body |-> FALSE]
      [] m = "add" -> [op |-> "add", body |-> TRUE]
      [] m \in {"set", "update"} -> [op |-> "update", body |-> TRUE]
      [] m = "delete" -> [op |-> "delete", body |-> TRUE]
      [] m = "exec" -> [op |-> "execute", body |-> TRUE]
      [] OTHER -> [op |-> "none", body |-> FALSE]

\* The branch of the dispatch a verb takes: the pyFMG method called, and whether
\* **kwargs goes with it. "none" is the else branch.
VerbTable(m) ==
    CASE m = "get" -> [op |-> "get", body |-> FALSE]
      [] m = "add" -> [op |-> "add", body |-> TRUE]
      [] m \in {"set", "update"} -> [op |-> "update", body |-> TRUE]
      [] m = "delete" -> [op |-> "delete", body |-> FALSE]
      [] m = "exec" -> [op |-> "execute", body |-> TRUE]
      [] OTHER -> [op |-> "none", body |-> FALSE]

\* str.lower on the status strings of RemoteStatuses.
LowerStatus(s) == IF s = "OK" THEN "ok" ELSE s

\* ExitStatus with the remote-error test written > 400.
ExitStatus_Above400(status) ==
    IF status.t = "int"
    THEN IF status.n < 0 THEN 1 ELSE IF status.n > 400 THEN 2 ELSE 0
    ELSE IF LowerStatus(status.s) \notin {"success", "ok"} THEN 1 ELSE 0

\* The exit status main derives from status_code; 0 is falling off the end.
ExitStatus(status) ==
    IF status.t = "int"
    THEN IF status.n < 0 THEN 1 ELSE IF status.n >= 400 THEN 2 ELSE 0
    ELSE IF LowerStatus(status.s) \notin {"success", "ok"} THEN 1 ELSE 0

Unsent == [t |-> "unsent"]

LogCreate(auth) == [ev |-> "create", auth |-> auth]
LogLogin(out) == [ev |-> "login", out |-> out]
LogCall(op, path, args, body, out, resp) ==
    [ev |-> "call", op |-> op, path |-> path, args |-> args, body |-> body, out |-> out,
     resp |-> resp]
LogLogout(out) == [ev |-> "logout", out |-> out]

(***************************************************************************)
(* The request: the run.                                                   *)
(***************************************************************************)
NoCreds == [host |-> FALSE, password |-> FALSE, apikey |-> FALSE]

InitRequest ==
    /\ entry = "none"
    /\ pc = "start"
    /\ method = "none"
    /\ endpoint = <<>>
    /\ query_params = None
    /\ request_data = None
    /\ config = {}
    /\ creds = NoCreds
    /\ netlog = <<>>
    /\ pending = "none"
    /\ retval = None
    /\ result = None
    /\ stderr = "none"
    /\ exitCode = 0
    /\ caught = "none"
    /\ interrupted = FALSE

IdleTable ==
    /\ response_data = None
    /\ max_fields = 0
    /\ max_width = 0
    /\ rendered = None
    /\ stdout = None
    /\ cell_value = None
    /\ flat = None

\* sys.exit(code) after printing an error of kind msg.
Exit(code, msg) ==
    /\ pc' = "exited"
    /\ exitCode' = code
    /\ stderr' = msg

\* raise e out of the current frame of main or of the caller's code.
Raise(e) ==
    /\ pc' = "propagate"
    /\ pending' = e

\* parser.parse_args(): -m is restricted to the six verbs, anything else is a
\* usage error, which argparse ends with exit status 2.
main_parse_args ==
    /\ pc = "start"
    /\ \E m \in Methods, e \in Endpoints, q \in Queries :
        /\ entry' = "cli"
        /\ method' = m
        /\ endpoint' = e
        /\ query_params' = q
        /\ IF m \in SupportedMethods
           THEN pc' = "load_config" /\ UNCHANGED <<exitCode, stderr>>
           ELSE Exit(2, "usage: invalid choice")
    /\ UNCHANGED tabvars
    /\ UNCHANGED <<request_data, config, creds, netlog, pending, retval, result,
                   caught, interrupted>>

\* if args.config: config = load_config_file(args.config), exit 1 on
\* FileNotFoundError or ValueError.
main_load_config ==
    /\ pc = "load_config"
    /\ \/ /\ config' = {}
          /\ pc' = "credentials"
          /\ UNCHANGED <<exitCode, stderr>>
       \/ \E file \in ConfigFiles :
            LET r == load_config_file(file) IN
            IF r.exc = "none"
            THEN config' = r.config /\ pc' = "credentials" /\ UNCHANGED <<exitCode, stderr>>
            ELSE config' = {} /\ Exit(1, "Error loading configuration")
    /\ UNCHANGED tabvars
    /\ UNCHANGED <<entry, method, endpoint, query_params, request_data, creds, netlog,
                   pending, retval, result, caught, interrupted>>

\* host, password and apikey from the arguments or the configuration, and the
\* two checks on them.
main_credentials ==
    /\ pc = "credentials"
    /\ \E host \in BOOLEAN, password \in BOOLEAN, apikey \in BOOLEAN :
        LET c == [host |-> host \/ "host" \in config \/ "ip" \in config,
                  password |-> password \/ "password" \in config,
                  apikey |-> apikey \/ "apikey" \in config]
        IN  /\ creds' = c
            /\ IF ~c.host
               THEN Exit(1, "Error: host is required")
               ELSE IF ~c.apikey /\ ~c.password
               THEN Exit(1, "Error: API key or password is required")
               ELSE pc' = "parse_data" /\ UNCHANGED <<exitCode, stderr>>
    /\ UNCHANGED tabvars
    /\ UNCHANGED <<entry, method, endpoint, query_params, request_data, config, netlog,
                   pending, retval, result, caught, interrupted>>

\* main_parse_data without the sys.exit(1) after the error message.
main_parse_data_NoExit ==
    /\ pc = "parse_data"
    /\ \E text \in DataArgs :
        IF text \in {"absent", ""}
        THEN request_data' = None /\ UNCHANGED stderr
        ELSE LET r == parse_data_argument(text) IN
             IF r.ok
             THEN request_data' = r.value /\ UNCHANGED stderr
             ELSE request_data' = None /\ stderr' = "Error parsing data"
    /\ pc' = "construct"
    /\ UNCHANGED tabvars
    /\ UNCHANGED <<entry, method, endpoint, query_params, config, creds, netlog,
                   pending, retval, result, caught, interrupted, exitCode>>

\* if args.data: request_data = parse_data_argument(args.data), exit 1 on ValueError.
main_parse_data ==
    /\ pc = "parse_data"
    /\ \E text \in DataArgs :
        IF text \in {"absent", ""}
        THEN request_data' = None /\ pc' = "construct" /\ UNCHANGED <<exitCode, stderr>>
        ELSE LET r == parse_data_argument(text) IN
             IF r.ok
             THEN request_data' = r.value /\ pc' = "construct"
                  /\ UNCHANGED <<exitCode, stderr>>
             ELSE request_data' = None /\ Exit(1, "Error parsing data")
    /\ UNCHANGED tabvars
    /\ UNCHANGED <<entry, method, endpoint, query_params, config, creds, netlog,
                   pending, retval, result, caught, interrupted>>

\* A caller other than main builds the client and calls execute_request itself.
api_call ==
    /\ pc = "start"
    /\ \E m \in Methods, e \in Endpoints, q \in Queries, d \in Bodies,
          password \in BOOLEAN, apikey \in BOOLEAN :
        /\ entry' = "api"
        /\ method' = m
        /\ endpoint' = e
        /\ query_params' = q
        /\ request_data' = d
        /\ creds' = [host |-> TRUE, password |-> password, apikey |-> apikey]
    /\ pc' = "construct"
    /\ UNCHANGED tabvars
    /\ UNCHANGED <<config, netlog, pending, retval, result, stderr, exitCode, caught,
                   interrupted>>

\* FortiManagerAPIClient.__init__
client_init ==
    /\ pc = "construct"
    /\ IF ~creds.apikey /\ ~creds.password
       THEN Raise("ValueError")
       ELSE pc' = "validate" /\ UNCHANGED pending
    /\ UNCHANGED tabvars
    /\ UNCHANGED <<entry, method, endpoint, query_params, request_data, config, creds,
                   netlog, retval, result, stderr, exitCode, caught, interrupted>>

\* execute_request_validate without the check of the verb.
execute_request_validate_NoCheck ==
    /\ pc = "validate"
    /\ method' = Lower(method)
    /\ endpoint' = NormalizeEndpoint(endpoint)
    /\ pc' = "connect"
    /\ UNCHANGED tabvars
    /\ UNCHANGED <<entry, query_params, request_data, config, creds, netlog, retval,
                   result, stderr, exitCode, caught, interrupted, pending>>

\* execute_request up to the try: lower the verb, reject an unsupported one,
\* normalise the path.
execute_request_validate ==
    /\ pc = "validate"
    /\ method' = Lower(method)
    /\ IF Lower(method) \notin SupportedMethods
       THEN Raise("ValueError") /\ UNCHANGED endpoint
       ELSE /\ endpoint' = NormalizeEndpoint(endpoint)
            /\ pc' = "connect"
            /\ UNCHANGED pending
    /\ UNCHANGED tabvars
    /\ UNCHANGED <<entry, query_params, request_data, config, creds, netlog, retval,
                   result, stderr, exitCode, caught, interrupted>>

\* self._create_connection(): the pyFMG object, keyed by apikey when there is one.
_create_connection ==
    /\ pc = "connect"
    /\ netlog' = Append(netlog, LogCreate(IF creds.apikey THEN "apikey" ELSE "password"))
    /\ pc' = "enter"
    /\ UNCHANGED tabvars
    /\ UNCHANGED <<entry, method, endpoint, query_params, request_data, config, creds,
                   pending, retval, result, stderr, exitCode, caught, interrupted>>

\* with ... as fmg: __enter__ logs in. A login that raises leaves the with
\* statement without __exit__.
session_enter ==
    /\ pc = "enter"
    /\ \E out \in {"ok"} \cup Exceptions :
        /\ netlog' = Append(netlog, LogLogin(out))
        /\ IF out = "ok"
           THEN pc' = "body" /\ UNCHANGED <<pending, interrupted>>
           ELSE /\ pc' = "except"
                /\ pending' = out
                /\ interrupted' = (interrupted \/ out = "KeyboardInterrupt")
    /\ UNCHANGED tabvars
    /\ UNCHANGED <<entry, method, endpoint, query_params, request_data, config, creds,
                   retval, result, stderr, exitCode, caught>>

\* The body of the with block: one branch by verb, each a return of the call.
\* A body that is no mapping fails at **kwargs before the call is made.
execute_request_dispatch ==
    /\ pc = "body"
    /\ LET args == IF query_params.t = "none" THEN <<>> ELSE query_params.items
           kwargs == IF Truthy(request_data) THEN request_data ELSE JsonEmptyObject
           branch == VerbTable(method)
       IN  IF branch.op = "none"
           THEN /\ retval' = ErrorResult(0 - 5, "Unsupported method", method)
                /\ UNCHANGED <<netlog, pending, interrupted>>
           ELSE IF branch.body /\ kwargs.t # "map"
           THEN /\ pending' = "TypeError"
                /\ UNCHANGED <<netlog, retval, interrupted>>
           ELSE \/ \E r \in Responses :
                    /\ netlog' = Append(netlog, LogCall(branch.op, endpoint, args,
                                    IF branch.body THEN kwargs ELSE Unsent, "ok", r))
                    /\ retval' = r
                    /\ UNCHANGED <<pending, interrupted>>
                \/ \E e \in Exceptions :
                    /\ netlog' = Append(netlog, LogCall(branch.op, endpoint, args,
                                    IF branch.body THEN kwargs ELSE Unsent, e, None))
                    /\ pending' = e
                    /\ interrupted' = (interrupted \/ e = "KeyboardInterrupt")
                    /\ UNCHANGED retval
    /\ pc' = "exit_scope"
    /\ UNCHANGED tabvars
    /\ UNCHANGED <<entry, method, endpoint, query_params, request_data, config, creds,
                   result, stderr, exitCode, caught>>

\* session_exit as an explicit logout after the call instead of a with block: an
\* exception in flight skips it.
session_exit_OnReturnOnly ==
    /\ pc = "exit_scope"
    /\ IF pending # "none"
       THEN /\ pc' = "except"
            /\ UNCHANGED <<netlog, interrupted, pending, result>>
       ELSE \E out \in {"ok"} \cup Exceptions :
            /\ netlog' = Append(netlog, LogLogout(out))
            /\ interrupted' = (interrupted \/ out = "KeyboardInterrupt")
            /\ IF out = "ok"
               THEN result' = retval /\ pc' = "returned" /\ UNCHANGED pending
               ELSE pending' = out /\ pc' = "except" /\ UNCHANGED result
    /\ UNCHANGED tabvars
    /\ UNCHANGED <<entry, method, endpoint, query_params, request_data, config, creds,
                   retval, stderr, exitCode, caught>>

\* Leaving the with block, by return or by exception: __exit__ logs out. An
\* exception of the logout replaces the one in flight and the value returned.
session_exit ==
    /\ pc = "exit_scope"
    /\ \E out \in {"ok"} \cup Exceptions :
        /\ netlog' = Append(netlog, LogLogout(out))
        /\ interrupted' = (interrupted \/ out = "KeyboardInterrupt")
        /\ LET exc == IF out = "ok" THEN pending ELSE out IN
           IF exc = "none"
           THEN /\ result' = retval
                /\ pc' = "returned"
                /\ UNCHANGED pending
           ELSE /\ pending' = exc
                /\ pc' = "except"
                /\ UNCHANGED result
    /\ UNCHANGED tabvars
    /\ UNCHANGED <<entry, method, endpoint, query_params, request_data, config, creds,
                   retval, stderr, exitCode, caught>>

\* The except clauses: every Exception becomes a result, anything else goes on.
execute_request_except ==
    /\ pc = "except"
    /\ IF IsException(pending)
       THEN /\ caught' = pending
            /\ result' = Classify(pending)
            /\ pending' = "none"
            /\ pc' = "returned"
       ELSE /\ pc' = "propagate"
            /\ UNCHANGED <<caught, result, pending>>
    /\ UNCHANGED tabvars
    /\ UNCHANGED <<entry, method, endpoint, query_params, request_data, config, creds,
                   netlog, retval, stderr, exitCode, interrupted>>

\* main prints the status line and the response in the chosen format.
main_print ==
    /\ pc = "returned"
    /\ entry = "cli"
    /\ pc' = "status"
    /\ UNCHANGED tabvars
    /\ UNCHANGED <<entry, method, endpoint, query_params, request_data, config, creds,
                   netlog, pending, retval, result, stderr, exitCode, caught, interrupted>>

\* The exit status from status_code.
main_exit_status ==
    /\ pc = "status"
    /\ Exit(ExitStatus(result.status),
            IF result.status.t = "str" /\ ExitStatus(result.status) = 1
            THEN "Warning: Unexpected status code" ELSE stderr)
    /\ UNCHANGED tabvars
    /\ UNCHANGED <<entry, method, endpoint, query_params, request_data, config, creds,
                   netlog, pending, retval, result, caught, interrupted>>

\* An exception that left execute_request or the constructor: main turns a
\* ValueError into exit 1 and a KeyboardInterrupt into exit 130; another caller
\* sees it raised.
propagate ==
    /\ pc = "propagate"
    /\ IF entry = "cli"
       THEN IF pending = "ValueError"
            THEN Exit(1, "Error: ValueError")
            ELSE Exit(130, "Operation cancelled by user")
       ELSE pc' = "raised" /\ UNCHANGED <<exitCode, stderr>>
    /\ UNCHANGED tabvars
    /\ UNCHANGED <<entry, method, endpoint, query_params, request_data, config, creds,
                   netlog, pending, retval, result, caught, interrupted>>

\* SIGINT between two steps of the try block of main: KeyboardInterrupt is raised
\* where the program stands; inside the with block it leaves through __exit__.
interrupt ==
    /\ pc \in {"construct", "validate", "connect", "body", "returned", "status"}
    /\ pc = "returned" => entry = "cli"
    /\ interrupted' = TRUE
    /\ pending' = "KeyboardInterrupt"
    /\ pc' = IF pc = "body" THEN "exit_scope" ELSE "propagate"
    /\ UNCHANGED tabvars
    /\ UNCHANGED <<entry, method, endpoint, query_params, request_data, config, creds,
                   netlog, retval, result, stderr, exitCode, caught>>

Next ==
    \/ main_parse_args
    \/ main_load_config
    \/ main_credentials
    \/ main_parse_data
    \/ api_call
    \/ client_init
    \/ execute_request_validate
    \/ _create_connection
    \/ session_enter
    \/ execute_request_dispatch
    \/ session_exit
    \/ execute_request_except
    \/ main_print
    \/ main_exit_status
    \/ propagate
    \/ interrupt

Init == InitRequest /\ IdleTable

Spec == Init /\ [][Next]_vars

Terminated == pc \in {"exited", "returned", "raised"} /\ (pc = "returned" => entry = "api")

(***************************************************************************)
(* The request: properties.                                                *)
(***************************************************************************)
Events(ev) == { i \in DOMAIN netlog : netlog[i].ev = ev }
Acquired == \E i \in Events("login") : netlog[i].out = "ok"
Raising == { i \in DOMAIN netlog : netlog[i].ev # "create" /\ netlog[i].out # "ok" }

\* The exception of the last use of the connection that raised, "none" if none did.
LastRaised ==
    IF Raising = {} THEN "none"
    ELSE netlog[CHOOSE i \in Raising : \A j \in Raising : j <= i].out

InScope == pc \in {"body", "exit_scope"}

\* C1: once login has succeeded, logout happens exactly once on every way out
\* of the with block (return, exception, interrupt): never more than once,
\* never without the login before it, never before the remote call, and no
\* run is outside the block with a session still open.
C1_ReleasedExactlyOnce ==
    /\ Cardinality(Events("logout")) <= 1
    /\ \A i \in Events("logout") :
         /\ \E j \in Events("login") : j < i /\ netlog[j].out = "ok"
         /\ \A j \in Events("call") : j < i
         /\ pc # "body"
    /\ (Acquired /\ ~InScope) => Cardinality(Events("logout")) = 1
    /\ (~Acquired) => Events("logout") = {} /\ Events("call") = {}

\* C1 witness: the user interrupts the remote call, the session is released
\* and the process ends with 130.
C1_Witness ==
    /\ pc = "exited"
    /\ exitCode = 130
    /\ Acquired
    /\ \E i \in Events("call") : netlog[i].out = "KeyboardInterrupt"
    /\ Cardinality(Events("logout")) = 1

\* The table of section 4.3 for the exception e that execute_request caught.
ClassifiedAs(e) ==
    CASE e \in {"FMGConnectionError", "FMGConnectTimeout"} ->
            result.status = IntStatus(0 - 1) /\ result.payload.error = "Connection failed"
      [] e = "FMGValidSessionException" ->
            result.status = IntStatus(0 - 2) /\ result.payload.error = "Invalid session"
      [] e = "FMGBaseException" ->
            result.status = IntStatus(0 - 3) /\ result.payload.error = "API error"
      [] OTHER ->
            result.status = IntStatus(0 - 4) /\ result.payload.error = "Unexpected error"

\* The answer of the remote to the one call of the run.
Answered(r) == \E i \in Events("call") : netlog[i].out = "ok" /\ netlog[i].resp = r

Negative(status) == status.t = "int" /\ status.n < 0

\* C2 as stated: the result is the row of the table for the exception, or the
\* remote's answer unchanged, and a negative status is never the result of a
\* request the remote answered.
C2_Original ==
    result # None =>
        /\ caught # "none" => ClassifiedAs(caught)
        /\ caught = "none" => Answered(result)
        /\ Negative(result.status) => caught # "none"

\* C2 amended: the exception that leaves the with block (raised by the login,
\* by the call, or by the logout, which replaces an earlier one and the value
\* returned) is classified by the table; with no exception the result is the
\* remote's answer unchanged, whatever its status, a negative one included.
C2_Classification ==
    result # None =>
        /\ caught # "none" =>
             /\ ClassifiedAs(caught)
             /\ caught # "KeyboardInterrupt"
             /\ caught = LastRaised \/ (caught = "TypeError" /\ Events("call") = {})
        /\ caught = "none" =>
             /\ Answered(result)
             /\ LastRaised = "none"
        /\ Negative(result.status) =>
             caught # "none" \/ (Answered(result) /\ result.payload = RemoteBody)

\* C2 witness: the remote answers with its own negative status, which is the
\* result.
C2_Witness ==
    /\ result # None
    /\ caught = "none"
    /\ result.status = IntStatus(0 - 3)
    /\ Answered(result)

Unsupported == entry # "none" /\ Lower(method) \notin SupportedMethods

\* C3 as stated: execute_request with an unsupported verb, on a client that
\* could be built and with no interrupt, ends in the result (-5, "Unsupported
\* method") with no use of the network.
C3_Original ==
    (Unsupported /\ Terminated /\ entry = "api" /\ ~interrupted
        /\ (creds.password \/ creds.apikey)) =>
        /\ result # None
        /\ result.status = IntStatus(0 - 5)
        /\ result.payload.error = "Unsupported method"
        /\ netlog = <<>>

\* C3 amended: an unsupported verb never gives a result: execute_request raises
\* ValueError before the try block (main's argument parser refuses the verb
\* first, with exit status 2), with no use of the network; status -5 is the
\* result of no run.
C3_UnsupportedRaises ==
    /\ Unsupported =>
         /\ netlog = <<>>
         /\ result = None
         /\ Terminated =>
              /\ entry = "api" => pc = "raised" /\ (pending = "ValueError" \/ interrupted)
              /\ entry = "cli" => exitCode = 2 /\ stderr = "usage: invalid choice"
    /\ result # None => result.status # IntStatus(0 - 5)

\* C3 witness: execute_request("foo", ...) has raised ValueError.
C3_Witness ==
    /\ entry = "api"
    /\ method = "foo"
    /\ pc = "raised"
    /\ pending = "ValueError"
    /\ ~interrupted
    /\ creds.password

ConfigErrors == {"Error loading configuration", "Error: host is required",
                 "Error: API key or password is required"}
ValidationErrors == {"usage: invalid choice", "Error parsing data", "Error: ValueError"}

Succeeded(status) ==
    \/ status.t = "int" /\ status.n >= 0 /\ status.n < 400
    \/ status.t = "str" /\ status.s \in {"success", "ok", "OK"}

RemoteError(status) == status.t = "int" /\ status.n >= 400

\* C4 as stated: 0 for success, 1 for a configuration or validation error or
\* a negative status, 2 for a remote status >= 400, 130 for an interrupt,
\* nothing else, each class of outcome with its one code.
C4_Original ==
    (pc = "exited") =>
        /\ exitCode \in {0, 1, 2, 130}
        /\ interrupted => exitCode = 130
        /\ stderr \in ConfigErrors \cup ValidationErrors => exitCode = 1
        /\ (~interrupted /\ result # None) =>
             /\ Negative(result.status) => exitCode = 1
             /\ RemoteError(result.status) => exitCode = 2
             /\ Succeeded(result.status) => exitCode = 0
        /\ exitCode = 2 => result # None /\ RemoteError(result.status)
        /\ exitCode = 1 =>
             \/ stderr \in ConfigErrors \cup ValidationErrors
             \/ result # None /\ Negative(result.status)

\* C4 amended: 2 for a command line the argument parser refuses (a bad verb)
\* and for a remote status >= 400; 1 for a configuration error, a malformed
\* JSON body, a negative status (the client's or the remote's own) and a
\* string status other than success/ok; 0 for an integer status in 0..399 and
\* for the strings success/ok in any case; 130 for an interrupt that reaches
\* main, which an interrupt inside the with block does not when the logout
\* then raises an error of its own: that error is classified instead.
C4_ExitCodes ==
    (pc = "exited") =>
        /\ exitCode \in {0, 1, 2, 130}
        /\ method \notin SupportedMethods <=> stderr = "usage: invalid choice"
        /\ stderr = "usage: invalid choice" => exitCode = 2 /\ result = None
        /\ stderr \in ConfigErrors \cup {"Error parsing data"} =>
             exitCode = 1 /\ result = None
        /\ exitCode = 130 <=> pending = "KeyboardInterrupt"
        /\ pending = "KeyboardInterrupt" => interrupted
        /\ (interrupted /\ pending # "KeyboardInterrupt") =>
             /\ result # None
             /\ caught = LastRaised
             /\ netlog[Len(netlog)].ev = "logout"
        /\ (result # None /\ pending = "none") =>
             /\ Negative(result.status) => exitCode = 1
             /\ RemoteError(result.status) => exitCode = 2
             /\ Succeeded(result.status) => exitCode = 0
             /\ (result.status.t = "str" /\ ~Succeeded(result.status)) => exitCode = 1
        /\ (result = None /\ exitCode # 130) =>
             stderr \in ConfigErrors \cup {"Error parsing data", "usage: invalid choice"}

\* C4 witness: the remote answers 404 and the process ends with 2.
C4_Witness ==
    /\ pc = "exited"
    /\ exitCode = 2
    /\ result # None
    /\ result.status = IntStatus(404)
    /\ Answered(result)

\* C5 as stated: a run that ends in a configuration or validation error ends
\* with 1 and has not used the network.
C5_Original ==
    (pc = "exited" /\ stderr \in ConfigErrors \cup ValidationErrors) =>
        exitCode = 1 /\ netlog = <<>>

\* C5 amended: a run that ends in a configuration error or a malformed JSON
\* body ends with 1, a run with a verb outside the six ends with 2 (the
\* argument parser's usage error); neither has used the network, and nothing
\* uses it before every check of main and of execute_request has passed.
C5_ValidationBeforeNetwork ==
    /\ (pc = "exited" /\ stderr \in ConfigErrors \cup {"Error parsing data"}) =>
         exitCode = 1 /\ netlog = <<>>
    /\ (pc = "exited" /\ stderr = "usage: invalid choice") =>
         exitCode = 2 /\ netlog = <<>>
    /\ netlog # <<>> =>
         /\ creds.host /\ (creds.password \/ creds.apikey)
         /\ method \in SupportedMethods
         /\ stderr \notin ConfigErrors \cup ValidationErrors

\* C5 witness: -d is not JSON and the run has ended.
C5_Witness ==
    /\ pc = "exited"
    /\ stderr = "Error parsing data"
    /\ creds.host

BodyVerbs == {"add", "set", "update", "exec"}

\* The call the claim's table gives verb m, with the operation named op.
CallIs(c, op) ==
    /\ c.op = op
    /\ c.path = endpoint
    /\ c.args = (IF query_params.t = "none" THEN <<>> ELSE query_params.items)
    /\ c.body = (IF method \in BodyVerbs
                 THEN (IF Truthy(request_data) THEN request_data ELSE JsonEmptyObject)
                 ELSE Unsent)

\* C6 as stated: one remote operation, get -> get, add -> add, set and update
\* -> set, delete -> delete, exec -> exec (pyFMG's execute), parameters in
\* order, the body only with add, set, update and exec.
C6_Original ==
    /\ Cardinality(Events("call")) <= 1
    /\ \A i \in Events("call") :
         CallIs(netlog[i],
                CASE method = "get" -> "get"
                  [] method = "add" -> "add"
                  [] method \in {"set", "update"} -> "set"
                  [] method = "delete" -> "delete"
                  [] method = "exec" -> "execute")

\* C6 amended: as stated, but set and update both call pyFMG's update, not
\* its set; and the one operation is issued when the login succeeded, no
\* interrupt came first and the body, where one is sent, is a JSON object.
C6_VerbTable ==
    /\ Cardinality(Events("call")) <= 1
    /\ \A i \in Events("call") :
         CallIs(netlog[i],
                CASE method = "get" -> "get"
                  [] method = "add" -> "add"
                  [] method \in {"set", "update"} -> "update"
                  [] method = "delete" -> "delete"
                  [] method = "exec" -> "execute")
    /\ (Acquired /\ ~InScope /\ ~interrupted) =>
         \/ Cardinality(Events("call")) = 1
         \/ method \in BodyVerbs /\ Truthy(request_data) /\ request_data.t # "map"

\* C6 witness: set has been issued with two parameters and a body.
C6_Witness ==
    \E i \in Events("call") :
        /\ method = "set"
        /\ netlog[i].op = "update"
        /\ netlog[i].args = <<"q2", "q1">>
        /\ netlog[i].body = JsonObject

(***************************************************************************)
(* JSON values and Python's view of them. Strings are sequences of         *)
(* characters; a mapping is the sequence of its entries in insertion       *)
(* order, the keys distinct.                                               *)
(***************************************************************************)
JNull == [t |-> "null"]
JStr(s) == [t |-> "str", s |-> s]
JInt(n) == [t |-> "int", n |-> n]
JBool(b) == [t |-> "bool", b |-> b]
JList(items) == [t |-> "list", items |-> items]
JMap(entries) == [t |-> "map", entries |-> entries]
Entry(k, val) == [k |-> k, val |-> val]

IsDict(x) == x.t = "map"
IsList(x) == x.t = "list"

\* key in mapping
Has(m, k) == \E i \in DOMAIN m.entries : m.entries[i].k = k

\* mapping.get(key, default)
Get(m, k, default) ==
    IF Has(m, k) THEN m.entries[CHOOSE i \in DOMAIN m.entries : m.entries[i].k = k].val ELSE default

\* bool(x)
IsTrue(x) ==
    CASE x.t = "null" -> FALSE
      [] x.t = "bool" -> x.b
      [] x.t = "int" -> x.n # 0
      [] x.t = "str" -> Len(x.s) > 0
      [] x.t = "list" -> Len(x.items) > 0
      [] OTHER -> Len(x.entries) > 0

\* a or b
Or(a, b) == IF IsTrue(a) THEN a ELSE b

\* s[:k] on a string or a list, k of either sign
Prefix(s, k) ==
    IF k >= 0 THEN SubSeq(s, 1, Min(k, Len(s)))
    ELSE SubSeq(s, 1, Max(0, Len(s) + k))

DigitChars == <<"0", "1", "2", "3", "4", "5", "6", "7", "8", "9">>

RECURSIVE NatStr(_)
NatStr(n) == IF n < 10 THEN <<DigitChars[n + 1]>>
             ELSE NatStr(n \div 10) \o <<DigitChars[(n % 10) + 1]>>

\* str(n) of an integer
IntStr(n) == IF n < 0 THEN <<"-">> \o NatStr(0 - n) ELSE NatStr(n)

RECURSIVE Join(_, _)
\* sep.join(parts)
Join(parts, sep) ==
    IF Len(parts) = 0 THEN <<>>
    ELSE IF Len(parts) = 1 THEN parts[1]
    ELSE parts[1] \o sep \o Join(Tail(parts), sep)

CommaSpace == <<",", " ">>

RECURSIVE Str(_)
RECURSIVE Repr(_)
\* str(x)
Str(x) ==
    CASE x.t = "null" -> <<"N", "o", "n", "e">>
      [] x.t = "bool" -> IF x.b THEN <<"T", "r", "u", "e">> ELSE <<"F", "a", "l", "s", "e">>
      [] x.t = "int" -> IntStr(x.n)
      [] x.t = "str" -> x.s
      [] x.t = "list" ->
            <<"[">> \o Join([i \in DOMAIN x.items |-> Repr(x.items[i])], CommaSpace) \o <<"]">>
      [] x.t = "map" ->
            <<"{">> \o Join([i \in DOMAIN x.entries |->
                               Repr(JStr(x.entries[i].k)) \o <<":", " ">> \o Repr(x.entries[i].val)],
                            CommaSpace) \o <<"}">>

\* repr(x): a string in quotes, anything else as str does
Repr(x) == IF x.t = "str" THEN <<"'">> \o x.s \o <<"'">> ELSE Str(x)

k_name == <<"n", "a", "m", "e">>
k_results == <<"r", "e", "s", "u", "l", "t", "s">>
k_data == <<"d", "a", "t", "a">>
k_items == <<"i", "t", "e", "m", "s">>
Dash == <<"-">>
Dots == <<".", ".", ".">>

(***************************************************************************)
(* TableFormatter                                                          *)
(***************************************************************************)
Returned(s) == [ok |-> TRUE, s |-> s]
Raised(exc) == [ok |-> FALSE, exc |-> exc]

\* _flatten_value: the string, or the exception it raises. item.get on an
\* element that is no mapping raises AttributeError.
_flatten_value(value) ==
    CASE value.t = "null" -> Returned(Dash)
      [] value.t = "list" ->
            IF Len(value.items) = 0 THEN Returned(Dash)
            ELSE IF IsDict(value.items[1]) /\ Has(value.items[1], k_name)
            THEN IF \E i \in DOMAIN value.items : ~IsDict(value.items[i])
                 THEN Raised("AttributeError")
                 ELSE Returned(Join([i \in DOMAIN value.items |->
                                       Str(Get(value.items[i], k_name, JStr(<<>>)))],
                                    CommaSpace))
            ELSE Returned(Join([i \in DOMAIN value.items |-> Str(value.items[i])], CommaSpace))
      [] value.t = "map" ->
            IF Has(value, k_name) THEN Returned(Str(Get(value, k_name, JNull)))
            ELSE IF Len(value.entries) = 1 THEN Returned(Str(value.entries[1].val))
            ELSE Returned(Str(value))
      [] OTHER -> Returned(Str(value))

Text(msg) == [kind |-> "text", text |-> msg]
Table(n, headers, rows) == [kind |-> "table", count |-> n, headers |-> headers, rows |-> rows]
Error(exc) == [kind |-> "raise", exc |-> exc]

NoData == Text("No data to display in table format")
NoFields == Text("No suitable fields found for table display")
NotSupported == Text("Table format not supported for response type")

\* The rows of a response: [ok, rows], ok FALSE for a value that is neither
\* a mapping nor a list.
data_list(response) ==
    IF IsDict(response)
    THEN LET d == Or(Or(Get(response, k_results, JNull), Get(response, k_data, JNull)),
                     Get(response, k_items, JNull))
         IN  IF IsList(d) THEN [ok |-> TRUE, rows |-> d.items]
             ELSE IF IsDict(d) THEN [ok |-> TRUE, rows |-> <<d>>]
             ELSE [ok |-> TRUE, rows |-> <<response>>]
    ELSE IF IsList(response) THEN [ok |-> TRUE, rows |-> response.items]
    ELSE [ok |-> FALSE, rows |-> <<>>]

SampleSize == 10

\* field_counts after one more item of the sample: the keys it has counted
\* once more, its new keys appended in their order.
CountItem(counts, item) ==
    IF ~IsDict(item) THEN counts
    ELSE LET seen == [i \in DOMAIN counts |->
                        IF Has(item, counts[i].k)
                        THEN [k |-> counts[i].k, n |-> counts[i].n + 1]
                        ELSE counts[i]]
             fresh == SelectSeq(item.entries, LAMBDA e : \A i \in DOMAIN counts : counts[i].k # e.k)
         IN  seen \o [i \in DOMAIN fresh |-> [k |-> fresh[i].k, n |-> 1]]

RECURSIVE field_counts(_)
\* field_counts over the items given, in order
field_counts(items) ==
    IF Len(items) = 0 THEN <<>>
    ELSE CountItem(field_counts(SubSeq(items, 1, Len(items) - 1)), items[Len(items)])

RECURSIVE SortedFrom(_, _)
\* The entries with count n, then those with less, each group in its order.
SortedFrom(counts, n) ==
    IF n = 0 THEN <<>>
    ELSE SelectSeq(counts, LAMBDA c : c.n = n) \o SortedFrom(counts, n - 1)

\* sorted(field_counts.items(), key=lambda x: x[1], reverse=True): a stable
\* sort, so equal counts keep the order of field_counts.
common_fields(counts) == SortedFrom(counts, SampleSize)

\* The truncation of one flattened cell.
Truncate(formatted_value, width) ==
    IF width # 0 /\ Len(formatted_value) > width
    THEN Prefix(formatted_value, width - 3) \o Dots
    ELSE formatted_value

\* The cell of one item under one field: [ok, s] or [ok, exc].
Cell(item, field, width) ==
    LET f == _flatten_value(Get(item, field, JStr(Dash)))
    IN  IF f.ok THEN Returned(Truncate(f.s, width)) ELSE f

\* format_table: a message, the table (row count, headers, rows of cells),
\* or the exception raised. item.get on a row that is no mapping raises
\* AttributeError.
format_table(response, fields_cap, width) ==
    LET d == data_list(response) IN
    IF ~d.ok THEN NotSupported
    ELSE IF Len(d.rows) = 0 THEN NoData
    ELSE LET sorted == common_fields(field_counts(Prefix(d.rows, SampleSize)))
             top == Prefix(sorted, fields_cap)
             fields == [i \in DOMAIN top |-> top[i].k]
         IN  IF Len(fields) = 0 THEN NoFields
             ELSE IF \E r \in DOMAIN d.rows : ~IsDict(d.rows[r])
             THEN Error("AttributeError")
             ELSE LET cells == [r \in DOMAIN d.rows |->
                                  [c \in DOMAIN fields |-> Cell(d.rows[r], fields[c], width)]]
                  IN  IF \E r \in DOMAIN cells : \E c \in DOMAIN fields : ~cells[r][c].ok
                      THEN Error("AttributeError")
                      ELSE Table(Len(d.rows), fields,
                                 [r \in DOMAIN cells |->
                                    [c \in DOMAIN fields |-> cells[r][c].s]])

\* max_fields as main passes it on
Unlimited == 999
FieldsCap(n) == IF n # 0 THEN n ELSE Unlimited

(***************************************************************************)
(* The table branch of main on one response, and _flatten_value on one     *)
(* cell.                                                                   *)
(***************************************************************************)
MaxListLen == 2
MaxRows == 2
MaxBeyondSample == 1
MaxFieldsArg == 3
MaxWidthArg == 5

RECURSIVE SeqsUpTo(_, _)
\* The sequences over S of length at most n.
SeqsUpTo(S, n) ==
    IF n = 0 THEN { <<>> }
    ELSE LET shorter == SeqsUpTo(S, n - 1)
         IN  shorter \cup { Append(q, x) : q \in shorter, x \in S }

s_a == <<"a">>
s_b == <<"b">>
s_x == <<"x">>
s_obj1 == <<"o", "b", "j", "1">>
s_subnet == <<"1", "0", ".", "0", ".", "0", ".", "0", "/", "2", "4">>
k_subnet == <<"s", "u", "b", "n", "e", "t">>
k_member == <<"m", "e", "m", "b", "e", "r">>
k_extra == <<"e", "x", "t", "r", "a">>
k_x == <<"x">>
k_y == <<"y">>

Named(n) == JMap(<<Entry(k_name, JStr(n))>>)

Scalars == { JNull, JStr(<<>>), JStr(s_a), JStr(s_subnet), JInt(0), JInt(42), JInt(0 - 7),
             JBool(TRUE), JBool(FALSE) }

ListElements == { JStr(s_x), JInt(5), JNull, Named(s_a), Named(s_b),
                  JMap(<<Entry(k_x, JInt(1))>>) }

Lists == { JList(q) : q \in SeqsUpTo(ListElements, MaxListLen) }

Maps == { JMap(<<>>), Named(s_obj1),
          JMap(<<Entry(k_name, JInt(5))>>),
          JMap(<<Entry(k_name, JNull)>>),
          JMap(<<Entry(k_x, JInt(1))>>),
          JMap(<<Entry(k_x, JStr(s_a))>>),
          JMap(<<Entry(k_x, JInt(1)), Entry(k_y, JStr(s_b))>>),
          JMap(<<Entry(k_x, JInt(1)), Entry(k_name, JStr(s_obj1))>>) }

CellValues == Scalars \cup Lists \cup Maps

RowA == JMap(<<Entry(k_name, JStr(s_a)), Entry(k_subnet, JStr(s_subnet))>>)
RowB == JMap(<<Entry(k_subnet, JStr(s_x)), Entry(k_name, Named(s_obj1)),
               Entry(k_member, JList(<<Named(s_a), Named(s_b)>>))>>)
RowC == JMap(<<Entry(k_extra, JNull)>>)
RowD == JMap(<<Entry(k_extra, JList(<<Named(s_a), JStr(s_x)>>)), Entry(k_name, JStr(s_b))>>)
RowE == JMap(<<Entry(k_extra, JInt(42)), Entry(k_name, JStr(s_b))>>)
Rows == { RowA, RowB, RowC, RowD, RowE, JMap(<<>>), JStr(s_x) }

RowLists == SeqsUpTo(Rows, MaxRows)

\* n rows, the last with a key of its own.
LongList(n) == [i \in 1..n |-> IF i = n THEN RowC ELSE RowA]
LongLists == { LongList(n) : n \in (SampleSize - 1)..(SampleSize + MaxBeyondSample) }

NestedLists == { <<>>, <<RowA>>, <<RowE, RowA>> }

Wrapped == UNION { { JMap(<<Entry(k_results, JList(q))>>),
                     JMap(<<Entry(k_data, JList(q))>>),
                     JMap(<<Entry(k_items, JList(q))>>),
                     JMap(<<Entry(k_results, JList(<<>>)), Entry(k_data, JList(q))>>),
                     JMap(<<Entry(k_items, JList(q)), Entry(k_results, JList(<<RowC>>))>>),
                     JMap(<<Entry(k_results, JNull), Entry(k_items, JList(q))>>),
                     JMap(<<Entry(k_results, JStr(s_x)), Entry(k_data, JList(q))>>) }
                   : q \in NestedLists }
           \cup { JMap(<<Entry(k_results, RowA)>>),
                  JMap(<<Entry(k_data, RowB), Entry(k_x, JInt(1))>>),
                  JMap(<<Entry(k_results, JInt(0)), Entry(k_name, JStr(s_a))>>) }

ResponseValues == { JList(q) : q \in RowLists \cup LongLists }
                  \cup Wrapped \cup Rows \cup { JNull, JInt(42) }

\* One row with one key more than main lets max_fields = 0 stand for.
KeyNo(i) == <<"k">> \o NatStr(i)
WideRow == JMap([i \in 1..(Unlimited + 1) |-> Entry(KeyNo(i), JInt(i))])

IdleRequest ==
    /\ entry = "none"
    /\ method = "none"
    /\ endpoint = <<>>
    /\ query_params = None
    /\ request_data = None
    /\ config = {}
    /\ creds = NoCreds
    /\ netlog = <<>>
    /\ pending = "none"
    /\ retval = None
    /\ result = None
    /\ stderr = "none"
    /\ exitCode = 0
    /\ caught = "none"
    /\ interrupted = FALSE

idlevars == <<entry, method, endpoint, query_params, request_data, config, creds, netlog,
              pending, retval, result, stderr, exitCode, caught, interrupted>>

InitTable ==
    /\ pc = "format"
    /\ \/ /\ response_data \in ResponseValues
          /\ max_fields \in 0..MaxFieldsArg
          /\ max_width \in 0..MaxWidthArg
       \/ /\ response_data = JList(<<WideRow>>)
          /\ max_fields = 0
          /\ max_width = 0
    /\ rendered = None
    /\ stdout = None
    /\ cell_value = None
    /\ flat = None
    /\ IdleRequest

\* if args.format == 'table': the call of format_table, printed when it returns.
main_format_table ==
    /\ pc = "format"
    /\ LET out == format_table(response_data, FieldsCap(max_fields), max_width) IN
        /\ rendered' = out
        /\ IF out.kind = "raise"
           THEN pc' = "fallback" /\ UNCHANGED stdout
           ELSE pc' = "printed" /\ stdout' = out
    /\ UNCHANGED <<response_data, max_fields, max_width, cell_value, flat>>
    /\ UNCHANGED idlevars

\* except Exception: the response as indented JSON instead.
main_table_fallback ==
    /\ pc = "fallback"
    /\ stdout' = [kind |-> "json", json |-> response_data]
    /\ pc' = "printed"
    /\ UNCHANGED <<response_data, max_fields, max_width, rendered, cell_value, flat>>
    /\ UNCHANGED idlevars

NextTable ==
    \/ main_format_table
    \/ main_table_fallback

SpecTable == InitTable /\ [][NextTable]_vars

InitCell ==
    /\ pc = "flatten"
    /\ cell_value \in CellValues
    /\ flat = None
    /\ response_data = None
    /\ max_fields = 0
    /\ max_width = 0
    /\ rendered = None
    /\ stdout = None
    /\ IdleRequest

\* One call of TableFormatter._flatten_value.
flatten ==
    /\ pc = "flatten"
    /\ flat' = _flatten_value(cell_value)
    /\ pc' = "flattened"
    /\ UNCHANGED <<response_data, max_fields, max_width, rendered, stdout, cell_value>>
    /\ UNCHANGED idlevars

NextCell == flatten

SpecCell == InitCell /\ [][NextCell]_vars

(***************************************************************************)
(* The renderer: properties.                                               *)
(***************************************************************************)
ExtractionKeys == <<k_results, k_data, k_items>>

\* The rows the claim gives a response: under the first of results, data,
\* items that is present, a list as it is and a mapping as one row; the whole
\* mapping when none of the keys is present; a list itself. stated is FALSE
\* where the claim names no rows (the first key present holds a scalar).
ClaimedRows(response) ==
    IF IsList(response) THEN [stated |-> TRUE, rows |-> response.items]
    ELSE LET present == { i \in 1..3 : Has(response, ExtractionKeys[i]) } IN
         IF present = {} THEN [stated |-> TRUE, rows |-> <<response>>]
         ELSE LET first == CHOOSE i \in present : \A j \in present : i <= j
                  under == Get(response, ExtractionKeys[first], JNull)
              IN  IF IsList(under) THEN [stated |-> TRUE, rows |-> under.items]
                  ELSE IF IsDict(under) THEN [stated |-> TRUE, rows |-> <<under>>]
                  ELSE [stated |-> FALSE, rows |-> <<>>]

Formatted == pc \in {"fallback", "printed"}

\* C7 as stated: the rows are those under the first present key of results,
\* data, items (a list as is, a mapping as one row), the mapping itself only
\* when no key gives rows, a list input itself; and no rows, also an empty
\* list under the winning key, give exactly "No data to display in table
\* format".
C7_Original ==
    (Formatted /\ (IsDict(response_data) \/ IsList(response_data))) =>
        LET claim == ClaimedRows(response_data) IN
        claim.stated =>
            /\ Len(claim.rows) = 0 <=> rendered = NoData
            /\ rendered.kind = "table" => rendered.count = Len(claim.rows)

\* The flattened cell of row r under header h, before truncation.
RawCell(r, h) == _flatten_value(Get(data_list(response_data).rows[r], h, JStr(Dash))).s

\* C8 as stated: with max_width > 0 a cell no longer than max_width is
\* emitted unchanged, a longer one as its first max_width - 3 characters and
\* "...", so no emitted cell is longer than max_width, for 1, 2 and 3 too;
\* with max_width = 0 every cell is emitted unchanged.
C8_Original ==
    (Formatted /\ rendered.kind = "table") =>
        \A r \in DOMAIN rendered.rows : \A c \in DOMAIN rendered.headers :
            LET raw == RawCell(r, rendered.headers[c])
                out == rendered.rows[r][c]
            IN  /\ max_width = 0 => out = raw
                /\ max_width > 0 =>
                     /\ Len(out) <= max_width
                     /\ Len(raw) <= max_width => out = raw
                     /\ Len(raw) > max_width => out = SubSeq(raw, 1, max_width - 3) \o Dots

\* The sample of the column inference and what it holds.
Sample == Prefix(data_list(response_data).rows, SampleSize)
SampleKeys == UNION { { Sample[i].entries[j].k : j \in DOMAIN Sample[i].entries }
                      : i \in { n \in DOMAIN Sample : IsDict(Sample[n]) } }
Occurrences(k) == Cardinality({ i \in DOMAIN Sample : IsDict(Sample[i]) /\ Has(Sample[i], k) })
FirstRow(k) == CHOOSE i \in DOMAIN Sample :
                   /\ IsDict(Sample[i]) /\ Has(Sample[i], k)
                   /\ \A j \in 1..(i - 1) : ~(IsDict(Sample[j]) /\ Has(Sample[j], k))
PlaceIn(row, k) == CHOOSE j \in DOMAIN row.entries : row.entries[j].k = k
SeenBefore(k1, k2) ==
    \/ FirstRow(k1) < FirstRow(k2)
    \/ FirstRow(k1) = FirstRow(k2)
         /\ PlaceIn(Sample[FirstRow(k1)], k1) < PlaceIn(Sample[FirstRow(k1)], k2)
RankedBefore(k1, k2) ==
    \/ Occurrences(k1) > Occurrences(k2)
    \/ Occurrences(k1) = Occurrences(k2) /\ SeenBefore(k1, k2)

\* The columns are the `want` best keys of the sample, best first.
ColumnsAre(headers, want) ==
    /\ Len(headers) = want
    /\ \A i \in DOMAIN headers : headers[i] \in SampleKeys
    /\ \A i \in DOMAIN headers : \A j \in DOMAIN headers :
         i < j => RankedBefore(headers[i], headers[j])
    /\ \A k \in SampleKeys : \A i \in DOMAIN headers :
         (\A j \in DOMAIN headers : headers[j] # k) => RankedBefore(headers[i], k)

\* C9 as stated: the columns are the keys of the mapping rows among the first
\* 10 rows, by descending count, ties in first-seen order, the top max_fields
\* of them and all of them when max_fields = 0; without a mapping row in the
\* sample the result is a message, no table.
C9_Original ==
    (Formatted /\ data_list(response_data).ok /\ Len(data_list(response_data).rows) > 0) =>
        /\ rendered.kind = "table" =>
             ColumnsAre(rendered.headers,
                        IF max_fields = 0 THEN Cardinality(SampleKeys)
                        ELSE Min(max_fields, Cardinality(SampleKeys)))
        /\ (\A i \in DOMAIN Sample : ~IsDict(Sample[i])) => rendered = NoFields

\* The claim of C9 for every response with at most Unlimited keys in its sample.
ColumnsWithinCap ==
    (Formatted /\ data_list(response_data).ok /\ Len(data_list(response_data).rows) > 0
        /\ Cardinality(SampleKeys) <= Unlimited) =>
        /\ rendered.kind = "table" =>
             ColumnsAre(rendered.headers,
                        IF max_fields = 0 THEN Cardinality(SampleKeys)
                        ELSE Min(max_fields, Cardinality(SampleKeys)))
        /\ (\A i \in DOMAIN Sample : ~IsDict(Sample[i])) => rendered = NoFields

AllNamed(items) == \A i \in DOMAIN items : IsDict(items[i]) /\ Has(items[i], k_name)

\* The string the claim gives a cell value.
ClaimedFlat(x) ==
    CASE x.t = "null" -> Dash
      [] x.t = "list" ->
            IF Len(x.items) = 0 THEN Dash
            ELSE IF AllNamed(x.items)
            THEN Join([i \in DOMAIN x.items |-> Str(Get(x.items[i], k_name, JNull))], CommaSpace)
            ELSE Join([i \in DOMAIN x.items |-> Str(x.items[i])], CommaSpace)
      [] x.t = "map" ->
            IF Has(x, k_name) THEN Str(Get(x, k_name, JNull))
            ELSE IF Len(x.entries) = 1 THEN Str(x.entries[1].val)
            ELSE Str(x)
      [] OTHER -> Str(x)

\* C10 as stated: _flatten_value never raises and returns "-" for null and
\* for an empty list, the names joined by ", " for a list of mappings that
\* all have a name, the elements' strings joined by ", " for every other
\* list, the name of a mapping that has one, the one value of a mapping with
\* one entry, and the string of anything else.
C10_Original ==
    (pc = "flattened") => flat.ok /\ flat.s = ClaimedFlat(cell_value)

====
